---- MODULE Spec2Model ----
(***************************************************************************)
(* Peak localization (spikeinterface.sortingcomponents.peak_localization). *)
(*                                                                         *)
(* The model follows localize_peaks and the compute_buffer methods of the  *)
(* three strategies LocalizePeakChannel, LocalizeCenterOfMass and          *)
(* LocalizeMonopolarTriangulation.  Sample values and contact positions    *)
(* are integers; every quotient is an exact extended rational <<n, d>>     *)
(* (d = 0 encodes the IEEE results of a division by zero: <<0,0>> is NaN,  *)
(* <<1,0>> is +inf, <<-1,0>> is -inf), so floating-point rounding is not   *)
(* part of the model.  Channel indices are 0-based as in the source; peak  *)
(* indices are 1-based (model index i is source index i-1).                *)
(***************************************************************************)
EXTENDS Integers, Naturals, Sequences, FiniteSets, TLC

\* ------------------------------------------------------------------ bounds
\* largest number of peaks in one buffer
MaxPeaks == 2
\* largest number of peaks in the buffer of one concurrent invocation
MaxJobPeaks == 1

\* ------------------------------------------------------- exact arithmetic
Abs(n) == IF n < 0 THEN -n ELSE n
Sign(n) == IF n < 0 THEN -1 ELSE IF n > 0 THEN 1 ELSE 0

RECURSIVE GCD(_, _)
GCD(a, b) == IF b = 0 THEN a ELSE GCD(b, a % b)

\* the extended rational n/d in lowest terms
Rat(n, d) ==
    IF d = 0 THEN <<Sign(n), 0>>
    ELSE LET g == GCD(Abs(n), Abs(d))
             s == Sign(d)
         IN  <<(s * n) \div g, (s * d) \div g>>

Zero == Rat(0, 1)
NaN == <<0, 0>>
IsNaN(a) == a = NaN
IsFinite(a) == a[2] # 0
RInt(n) == Rat(n, 1)
\* sum, product and quotient of finite rationals; the quotient by zero is
\* NaN (0/0) or a signed infinity, as numpy's float division produces
RAdd(a, b) == Rat(a[1] * b[2] + b[1] * a[2], a[2] * b[2])
RMul(a, b) == Rat(a[1] * b[1], a[2] * b[2])
RDiv(a, b) == Rat(a[1] * b[2], a[2] * b[1])
RLeq(a, b) == IsFinite(a) /\ IsFinite(b) /\ a[1] * b[2] <= b[1] * a[2]
RSign(a) == Sign(a[1])

RECURSIVE RSum(_)
RSum(s) == IF s = <<>> THEN Zero ELSE RAdd(Head(s), RSum(Tail(s)))

\* the exact square root of a perfect square
Sqrt(n) == CHOOSE r \in 0..n : r * r = n

SeqMax(s) == CHOOSE m \in {s[k] : k \in DOMAIN s} : \A k \in DOMAIN s : s[k] <= m
SeqMin(s) == CHOOSE m \in {s[k] : k \in DOMAIN s} : \A k \in DOMAIN s : m <= s[k]
RECURSIVE ISum(_)
ISum(s) == IF s = <<>> THEN 0 ELSE Head(s) + ISum(Tail(s))

\* the elements of a finite set of integers in increasing order
RECURSIVE SortedSeq(_)
SortedSeq(S) ==
    IF S = {} THEN <<>>
    ELSE LET m == CHOOSE x \in S : \A y \in S : x <= y
         IN  <<m>> \o SortedSeq(S \ {m})

\* ---------------------------------------------------------------- geometry
\* contact positions of the probe, one (x, y) per channel
ProbeLocations == << <<0, 0>>, <<20, 0>>, <<40, 0>>, <<60, 0>> >>
Channels == 0..(Len(ProbeLocations) - 1)
Radii == {25, 65}

ContactLocations == [c \in Channels |-> ProbeLocations[c + 1]]

Dist2(locs, a, b) ==
    (locs[a][1] - locs[b][1]) * (locs[a][1] - locs[b][1])
    + (locs[a][2] - locs[b][2]) * (locs[a][2] - locs[b][2])

\* neighbours_mask[i][j]: channel j lies within local_radius_um of channel i
NeighboursMask(locs, local_radius_um) ==
    [i \in Channels |-> [j \in Channels |->
        Dist2(locs, i, j) < local_radius_um * local_radius_um]]

\* np.nonzero / np.flatnonzero of one row of a boolean mask
Nonzero(row) == SortedSeq({c \in DOMAIN row : row[c]})

LocalContactLocations_leading(locs, chan_inds) ==
    [k \in DOMAIN chan_inds |-> locs[k - 1]]

\* contact_locations[chan_inds, :]
LocalContactLocations(locs, chan_inds) ==
    [k \in DOMAIN chan_inds |-> locs[chan_inds[k]]]

\* --------------------------------------------------------------- waveforms
\* samples kept before and after the peak sample (ms_before, ms_after)
nbefore == 1
nafter == 1

\* the windows of nbefore + nafter trace rows a buffer is made of; a row
\* holds one value per channel.  In order: a flat window; a deflection of
\* -1, -4, -10, -4 at the peak sample (peak-to-peak 1, 4, 10, 4);
\* deflections of mixed sign on both samples (on channels 0 and 1 they
\* cancel at the peak sample).  Every channel's energy is an integer.
Windows ==
    { << <<0, 0, 0, 0>>, <<0, 0, 0, 0>> >>,
      << <<0, 0, 0, 0>>, <<-1, -4, -10, -4>> >>,
      << <<3, -3, 0, 0>>, <<-4, 4, 0, 3>> >> }

\* the samples of channel c in a (nsample, nchan) snippet
Column(wf, c) == [s \in DOMAIN wf |-> wf[s][c + 1]]

\* traces[first:last, :] with 0-based row numbers, last excluded
Slice(traces, first, last) == [s \in 1..(last - first) |-> traces[first + s]]

\* the snippets the pipeline extracts for a step that needs waveforms:
\* waveforms[i] covers [sample_ind - nbefore, sample_ind + nafter) on all channels
ExtractWaveforms(traces, peaks) ==
    [i \in DOMAIN peaks |->
        Slice(traces, peaks[i].sample_ind - nbefore, peaks[i].sample_ind + nafter)]

\* ------------------------------------------------------ LocalizePeakChannel
PeakChannelLocation_by_index(contact_locations, index, main_chan) ==
    [x |-> RInt(contact_locations[index - 1][1]), y |-> RInt(contact_locations[index - 1][2])]

\* the body of the loop: the location of the peak's channel
PeakChannelLocation(contact_locations, index, main_chan) ==
    LET locations == contact_locations[main_chan]
    IN  [x |-> RInt(locations[1]), y |-> RInt(locations[2])]

\* np.zeros(peaks.size, dtype=[x, y])
ZerosXY(n) == [i \in 1..n |-> [x |-> Zero, y |-> Zero]]

LocalizePeakChannel_compute_buffer(step, traces, peaks) ==
    [error |-> "none",
     peak_locations |->
        [index \in DOMAIN peaks |->
            PeakChannelLocation(step.contact_locations, index, peaks[index].channel_ind)],
     writes |-> [index \in DOMAIN peaks |-> 1]]

\* ----------------------------------------------------- LocalizeCenterOfMass
SupportedFeatures == {"ptp", "mean", "energy", "v_origin"}

\* the scalar weight of one channel of one snippet, by feature
WfFeature(feature, wf, c) ==
    LET col == Column(wf, c)
    IN  CASE feature = "ptp" -> RInt(SeqMax(col) - SeqMin(col))
          [] feature = "mean" -> Rat(ISum(col), Len(col))
          [] feature = "energy" -> RInt(Sqrt(ISum([s \in DOMAIN col |-> col[s] * col[s]])))
          [] feature = "v_origin" -> RInt(col[nbefore + 1])

\* wf_data[j][k]: weight of neighbour chan_inds[k] for the j-th peak of the group
WfData(feature, waveforms, idx, chan_inds) ==
    [j \in DOMAIN idx |-> [k \in DOMAIN chan_inds |->
        WfFeature(feature, waveforms[idx[j]], chan_inds[k])]]

\* np.dot(wf_data[j], local_contact_locations)[axis]
Dot(weights, locs, axis) ==
    RSum([k \in DOMAIN weights |-> RMul(weights[k], RInt(locs[k][axis]))])

Coms_total_sum(wf_data, local_contact_locations) ==
    LET total == RSum([j \in DOMAIN wf_data |-> RSum(wf_data[j])])
    IN  [j \in DOMAIN wf_data |->
            <<RDiv(Dot(wf_data[j], local_contact_locations, 1), total),
              RDiv(Dot(wf_data[j], local_contact_locations, 2), total)>>]

Coms_unweighted(wf_data, local_contact_locations) ==
    [j \in DOMAIN wf_data |->
        <<RDiv(Dot(wf_data[j], local_contact_locations, 1), RInt(Len(wf_data[j]))),
          RDiv(Dot(wf_data[j], local_contact_locations, 2), RInt(Len(wf_data[j])))>>]

\* coms = np.dot(wf_data, local_contact_locations) / np.sum(wf_data, axis=1)[:, None]
Coms(wf_data, local_contact_locations) ==
    [j \in DOMAIN wf_data |->
        <<RDiv(Dot(wf_data[j], local_contact_locations, 1), RSum(wf_data[j])),
          RDiv(Dot(wf_data[j], local_contact_locations, 2), RSum(wf_data[j]))>>]

ScatterComs_by_position(acc, idx, coms) ==
    [peak_locations |->
        [i \in DOMAIN acc.peak_locations |->
            IF i \in DOMAIN coms THEN [x |-> coms[i][1], y |-> coms[i][2]]
            ELSE acc.peak_locations[i]],
     writes |->
        [i \in DOMAIN acc.writes |->
            IF i \in DOMAIN coms THEN acc.writes[i] + 1 ELSE acc.writes[i]]]

\* peak_locations['x'][idx] = coms[:, 0]; peak_locations['y'][idx] = coms[:, 1]
ScatterComs(acc, idx, coms) ==
    [peak_locations |->
        [i \in DOMAIN acc.peak_locations |->
            IF \E j \in DOMAIN idx : idx[j] = i
            THEN LET j == CHOOSE j \in DOMAIN idx : idx[j] = i
                 IN  [x |-> coms[j][1], y |-> coms[j][2]]
            ELSE acc.peak_locations[i]],
     writes |->
        [i \in DOMAIN acc.writes |->
            acc.writes[i] + Cardinality({j \in DOMAIN idx : idx[j] = i})]]

\* one iteration of the loop over np.unique(peaks['channel_ind'])
CenterOfMassGroup(step, peaks, waveforms, main_chan, acc) ==
    LET idx == SortedSeq({i \in DOMAIN peaks : peaks[i].channel_ind = main_chan})
        chan_inds == Nonzero(step.neighbours_mask[main_chan])
        local_contact_locations == LocalContactLocations(step.contact_locations, chan_inds)
    IN  IF step.feature \notin SupportedFeatures
        THEN [error |-> "UnboundLocalError",
              peak_locations |-> acc.peak_locations, writes |-> acc.writes]
        ELSE LET wf_data == WfData(step.feature, waveforms, idx, chan_inds)
                 coms == Coms(wf_data, local_contact_locations)
                 new == ScatterComs(acc, idx, coms)
             IN  [error |-> "none",
                  peak_locations |-> new.peak_locations, writes |-> new.writes]

RECURSIVE CenterOfMassLoop(_, _, _, _, _)
CenterOfMassLoop(step, peaks, waveforms, groups, acc) ==
    IF groups = <<>> \/ acc.error # "none" THEN acc
    ELSE CenterOfMassLoop(step, peaks, waveforms, Tail(groups),
                          CenterOfMassGroup(step, peaks, waveforms, Head(groups), acc))

LocalizeCenterOfMass_compute_buffer(step, traces, peaks, waveforms) ==
    CenterOfMassLoop(step, peaks, waveforms,
                     SortedSeq({peaks[i].channel_ind : i \in DOMAIN peaks}),
                     [error |-> "none",
                      peak_locations |-> ZerosXY(Len(peaks)),
                      writes |-> [i \in DOMAIN peaks |-> 0]])

\* -------------------------------------------- shell order and the enforcer
\* the radial shell order of every channel: ShellOrder[c] is the sequence of
\* shells of c, each the set of positions (in the neighbour vector of c) of
\* the neighbours at one distance from c, by increasing distance; the first
\* shell is c itself
make_radial_order_parents(contact_locations, neighbours_mask) ==
    [c \in Channels |->
        LET chan_inds == Nonzero(neighbours_mask[c])
            dists == SortedSeq({Dist2(contact_locations, c, chan_inds[k]) : k \in DOMAIN chan_inds})
        IN  [s \in DOMAIN dists |->
                {k \in DOMAIN chan_inds : Dist2(contact_locations, c, chan_inds[k]) = dists[s]}]]

\* shells s, s+1, ... of the order: every amplitude of a shell above the
\* minimum of the previous shell is clamped down to that minimum
RECURSIVE EnforceShells(_, _, _)
EnforceShells(amp, shells, s) ==
    IF s > Len(shells) THEN amp
    ELSE LET prev == SeqMin(SortedSeq({amp[k] : k \in shells[s - 1]}))
         IN  EnforceShells([k \in DOMAIN amp |->
                               IF k \in shells[s] /\ amp[k] > prev THEN prev ELSE amp[k]],
                           shells, s + 1)

\* the Monotonicity Enforcer, on the amplitude vector of one peak
enforce_decrease_shells_ptp(wf_ptp, maxchan, radial_parents) ==
    EnforceShells(wf_ptp, radial_parents[maxchan], 2)

\* the fitted record is the solver applied to its arguments; the fit is not
\* computed, the record stands for its value
solve_monopolar_triangulation(wf_ptp, local_contact_locations, max_distance_um, optimizer) ==
    [wf_ptp |-> wf_ptp, local_contact_locations |-> local_contact_locations,
     max_distance_um |-> max_distance_um, optimizer |-> optimizer]

\* -------------------------------------------- LocalizeMonopolarTriangulation
\* wf = traces[sample_ind - nbefore : sample_ind + nafter, :][:, chan_inds];
\* wf.ptp(axis=0)
WfPtp(traces, peak, chan_inds) ==
    LET wf == Slice(traces, peak.sample_ind - nbefore, peak.sample_ind + nafter)
    IN  [k \in DOMAIN chan_inds |->
            SeqMax(Column(wf, chan_inds[k])) - SeqMin(Column(wf, chan_inds[k]))]

SolverPtp_never_enforced(step, wf_ptp, index, peak) == wf_ptp

\* the amplitude vector handed to the solver for one peak
SolverPtp(step, wf_ptp, index, peak) ==
    IF step.enforce_decrease_radial_parents.built
    THEN enforce_decrease_shells_ptp(wf_ptp, peak.channel_ind,
                                     step.enforce_decrease_radial_parents.parents)
    ELSE wf_ptp

\* one iteration of the loop over the peaks
MonopolarPeak(step, traces, index, peak) ==
    LET chan_inds == Nonzero(step.neighbours_mask[peak.channel_ind])
        local_contact_locations == LocalContactLocations(step.contact_locations, chan_inds)
        wf_ptp == SolverPtp(step, WfPtp(traces, peak, chan_inds), index, peak)
    IN  solve_monopolar_triangulation(wf_ptp, local_contact_locations,
                                      step.max_distance_um, step.optimizer)

LocalizeMonopolarTriangulation_compute_buffer(step, traces, peaks) ==
    [error |-> "none",
     peak_locations |-> [i \in DOMAIN peaks |-> MonopolarPeak(step, traces, i, peaks[i])],
     writes |-> [i \in DOMAIN peaks |-> 1]]

\* ------------------------------------------------------------ localize_peaks
possible_localization_methods == {"center_of_mass", "peak_channel", "monopolar_triangulation"}
RequestedMethods == possible_localization_methods \cup {"grid_convolution"}
RequestedFeatures == SupportedFeatures \cup {"amplitude"}

NoParents == [built |-> FALSE, parents |-> <<>>]
NoStep ==
    [name |-> "none", contact_locations |-> <<>>, neighbours_mask |-> <<>>,
     feature |-> "none", max_distance_um |-> 0, optimizer |-> "none",
     enforce_decrease_radial_parents |-> NoParents]

\* PeakPipelineStep.__init__: the geometry a step keeps
PeakPipelineStep(name, local_radius_um) ==
    [NoStep EXCEPT !.name = name,
                   !.contact_locations = ContactLocations,
                   !.neighbours_mask = NeighboursMask(ContactLocations, local_radius_um)]

LocalizePeakChannel(kw) == PeakPipelineStep("peak_channel", kw.local_radius_um)

LocalizeCenterOfMass(kw) ==
    [PeakPipelineStep("center_of_mass", kw.local_radius_um) EXCEPT !.feature = kw.feature]

LocalizeMonopolarTriangulation(kw) ==
    LET base == PeakPipelineStep("monopolar_triangulation", kw.local_radius_um)
    IN  [base EXCEPT
            !.max_distance_um = 1000,
            !.optimizer = "minimize_with_log_penality",
            !.enforce_decrease_radial_parents =
                IF kw.enforce_decrease
                THEN [built |-> TRUE,
                      parents |-> make_radial_order_parents(base.contact_locations,
                                                            base.neighbours_mask)]
                ELSE NoParents]

Dispatch_fallback(method, kw) ==
    IF method = "monopolar_triangulation" THEN LocalizeMonopolarTriangulation(kw)
    ELSE IF method = "peak_channel" THEN LocalizePeakChannel(kw)
    ELSE LocalizeCenterOfMass(kw)

\* the if/elif chain of localize_peaks; NoStep when no branch binds step
Dispatch(method, kw) ==
    IF method = "center_of_mass" THEN LocalizeCenterOfMass(kw)
    ELSE IF method = "monopolar_triangulation" THEN LocalizeMonopolarTriangulation(kw)
    ELSE IF method = "peak_channel" THEN LocalizePeakChannel(kw)
    ELSE NoStep

\* step.compute_buffer on one buffer, with the waveforms the step asks for
compute_buffer(step, traces, peaks) ==
    CASE step.name = "peak_channel" -> LocalizePeakChannel_compute_buffer(step, traces, peaks)
      [] step.name = "center_of_mass" ->
            LocalizeCenterOfMass_compute_buffer(step, traces, peaks,
                                                ExtractWaveforms(traces, peaks))
      [] step.name = "monopolar_triangulation" ->
            LocalizeMonopolarTriangulation_compute_buffer(step, traces, peaks)

\* the keyword arguments each method accepts
MethodKwargs(method) ==
    IF method = "center_of_mass"
    THEN [local_radius_um : Radii, feature : RequestedFeatures, enforce_decrease : {FALSE}]
    ELSE IF method = "monopolar_triangulation"
    THEN [local_radius_um : Radii, feature : {"none"}, enforce_decrease : BOOLEAN]
    ELSE [local_radius_um : Radii, feature : {"none"}, enforce_decrease : {FALSE}]

\* assertions on or stripped; they decide nothing for a supported method
AssertModes(method) ==
    IF method \in possible_localization_methods THEN {TRUE} ELSE BOOLEAN

\* --------------------------------------------------------------------- state
VARIABLES
    traces,          \* the trace buffer: one row of channel values per sample
    peaks,           \* the peaks of the buffer, in the order received
    request,         \* the arguments of the localize_peaks call
    step,            \* the strategy instance, NoStep before construction
    error,           \* the exception raised, "none" if none
    error_site,      \* where it was raised
    buffers,         \* number of buffers handed to compute_buffer
    peak_locations,  \* the array returned
    writes,          \* how many times each record of peak_locations was written
    pc,              \* "input", then "done" once localize_peaks returned or raised
    job,             \* per worker: one concurrent compute_buffer invocation
    wf_ptp           \* per slot: the amplitude vector of the peak in progress

vars == <<traces, peaks, request, step, error, error_site, buffers,
          peak_locations, writes, pc, job, wf_ptp>>

Workers == {1, 2}
NoRequest == [method |-> "none", kw |-> <<>>]
IdleJob == [pc |-> "idle", traces |-> <<>>, peaks |-> <<>>, i |-> 0,
            groups |-> <<>>, peak_locations |-> <<>>, error |-> "none"]

Init ==
    /\ traces = <<>>
    /\ peaks = <<>>
    /\ request = NoRequest
    /\ step = NoStep
    /\ error = "none"
    /\ error_site = "none"
    /\ buffers = 0
    /\ peak_locations = <<>>
    /\ writes = <<>>
    /\ pc = "input"
    /\ job = [w \in Workers |-> IdleJob]
    /\ wf_ptp = [w \in Workers |-> <<>>]

\* a peak is detected on channel chan, in a fresh window of the buffer
DetectPeak(chan, win) ==
    /\ pc = "input"
    /\ Len(peaks) < MaxPeaks
    /\ traces' = traces \o win
    /\ peaks' = Append(peaks, [sample_ind |-> Len(traces) + nbefore, channel_ind |-> chan])
    /\ UNCHANGED <<request, step, error, error_site, buffers, peak_locations, writes,
                   pc, job, wf_ptp>>

\* localize_peaks(recording, peaks, method, **kwargs); asserts is FALSE when
\* the interpreter runs with assertions stripped
LocalizePeaks(method, kw, asserts) ==
    /\ pc = "input"
    /\ pc' = "done"
    /\ request' = [method |-> method, kw |-> kw]
    /\ IF asserts /\ method \notin possible_localization_methods
       THEN /\ error' = "AssertionError"
            /\ error_site' = "localize_peaks"
            /\ UNCHANGED <<step, buffers, peak_locations, writes>>
       ELSE \E new \in {Dispatch(method, kw)} :
                IF new.name = "none"
                THEN /\ error' = "UnboundLocalError"
                     /\ error_site' = "localize_peaks"
                     /\ UNCHANGED <<step, buffers, peak_locations, writes>>
                ELSE \E res \in {compute_buffer(new, traces, peaks)} :
                         /\ step' = new
                         /\ buffers' = 1
                         /\ error' = res.error
                         /\ error_site' = IF res.error = "none" THEN "none"
                                          ELSE "compute_buffer"
                         /\ peak_locations' = res.peak_locations
                         /\ writes' = res.writes
    /\ UNCHANGED <<traces, peaks, job, wf_ptp>>

Next ==
    \/ \E chan \in Channels, win \in Windows : DetectPeak(chan, win)
    \/ \E method \in RequestedMethods :
          \E kw \in MethodKwargs(method), asserts \in AssertModes(method) :
              LocalizePeaks(method, kw, asserts)

Spec == Init /\ [][Next]_vars

\* ------------------------------------------------ concurrent invocations
\* The pipeline hands distinct buffers to workers that call compute_buffer
\* on one strategy instance; the steps of the invocations interleave.

\* channels and windows of the peaks in the workers' buffers
JobChannels == {0, 2}
JobWindows ==
    { << <<0, 0, 0, 0>>, <<-1, -4, -10, -4>> >>,
      << <<3, -3, 0, 0>>, <<-4, 4, 0, 3>> >> }

\* the strategies a pipeline can run
Strategies ==
    {Dispatch(method, kw) :
        method \in possible_localization_methods,
        kw \in [local_radius_um : Radii, feature : SupportedFeatures \cup {"none"},
                enforce_decrease : BOOLEAN]}

PtpSlot_on_instance(w) == 1

\* where the amplitude vector of the peak in progress lives: wf_ptp is a
\* fresh array local to the invocation
PtpSlot(w) == w

InitConc ==
    /\ traces = <<>>
    /\ peaks = <<>>
    /\ request = NoRequest
    /\ step \in {st \in Strategies :
                    /\ (st.name = "center_of_mass") = (st.feature # "none")
                    /\ st.name # "monopolar_triangulation" =>
                          ~st.enforce_decrease_radial_parents.built}
    /\ error = "none"
    /\ error_site = "none"
    /\ buffers = 0
    /\ peak_locations = <<>>
    /\ writes = <<>>
    /\ pc = "pipeline"
    /\ job = [w \in Workers |-> IdleJob]
    /\ wf_ptp = [w \in Workers |-> <<>>]

\* the pipeline adds a peak, in a fresh window, to the buffer of worker w
FetchPeak(w, chan, win) ==
    /\ pc = "pipeline"
    /\ job[w].pc = "idle"
    /\ Len(job[w].peaks) < MaxJobPeaks
    /\ job' = [job EXCEPT
                  ![w].traces = @ \o win,
                  ![w].peaks = Append(@, [sample_ind |-> Len(job[w].traces) + nbefore,
                                          channel_ind |-> chan])]
    /\ UNCHANGED <<traces, peaks, request, step, error, error_site, buffers,
                   peak_locations, writes, pc, wf_ptp>>

\* compute_buffer is entered: peak_locations = np.zeros(peaks.size, dtype)
EnterComputeBuffer(w) ==
    /\ pc = "pipeline"
    /\ job[w].pc = "idle"
    /\ job' = [job EXCEPT
                  ![w].pc = "loop",
                  ![w].i = 0,
                  ![w].groups = IF step.name = "center_of_mass"
                                THEN SortedSeq({job[w].peaks[i].channel_ind :
                                                   i \in DOMAIN job[w].peaks})
                                ELSE <<>>,
                  ![w].peak_locations = ZerosXY(Len(job[w].peaks))]
    /\ buffers' = buffers + 1
    /\ UNCHANGED <<traces, peaks, request, step, error, error_site,
                   peak_locations, writes, pc, wf_ptp>>

\* one iteration of the loop of LocalizePeakChannel.compute_buffer
PeakChannelStep(w) ==
    /\ job[w].pc = "loop"
    /\ step.name = "peak_channel"
    /\ job[w].i < Len(job[w].peaks)
    /\ LET index == job[w].i + 1
       IN  job' = [job EXCEPT
                      ![w].i = index,
                      ![w].peak_locations[index] =
                          PeakChannelLocation(step.contact_locations, index,
                                              job[w].peaks[index].channel_ind)]
    /\ UNCHANGED <<traces, peaks, request, step, error, error_site, buffers,
                   peak_locations, writes, pc, wf_ptp>>

\* one iteration of the loop of LocalizeCenterOfMass.compute_buffer
CenterOfMassStep(w) ==
    /\ job[w].pc = "loop"
    /\ step.name = "center_of_mass"
    /\ job[w].i < Len(job[w].groups)
    /\ \E res \in {CenterOfMassGroup(step, job[w].peaks,
                                     ExtractWaveforms(job[w].traces, job[w].peaks),
                                     job[w].groups[job[w].i + 1],
                                     [error |-> "none",
                                      peak_locations |-> job[w].peak_locations,
                                      writes |-> [i \in DOMAIN job[w].peaks |-> 0]])} :
          job' = [job EXCEPT ![w].i = @ + 1, ![w].peak_locations = res.peak_locations,
                             ![w].error = res.error]
    /\ UNCHANGED <<traces, peaks, request, step, error, error_site, buffers,
                   peak_locations, writes, pc, wf_ptp>>

\* LocalizeMonopolarTriangulation.compute_buffer, next peak: wf_ptp = wf.ptp(axis=0)
MonopolarPtpStep(w) ==
    /\ job[w].pc = "loop"
    /\ step.name = "monopolar_triangulation"
    /\ job[w].i < Len(job[w].peaks)
    /\ LET peak == job[w].peaks[job[w].i + 1]
       IN  wf_ptp' = [wf_ptp EXCEPT
                         ![PtpSlot(w)] = WfPtp(job[w].traces, peak,
                                               Nonzero(step.neighbours_mask[peak.channel_ind]))]
    /\ job' = [job EXCEPT ![w].pc = "enforce"]
    /\ UNCHANGED <<traces, peaks, request, step, error, error_site, buffers,
                   peak_locations, writes, pc>>

\* the enforcer is applied in place to wf_ptp when the shell order was built
MonopolarEnforceStep(w) ==
    /\ job[w].pc = "enforce"
    /\ LET index == job[w].i + 1
       IN  wf_ptp' = [wf_ptp EXCEPT
                         ![PtpSlot(w)] = SolverPtp(step, wf_ptp[PtpSlot(w)], index,
                                                   job[w].peaks[index])]
    /\ job' = [job EXCEPT ![w].pc = "solve"]
    /\ UNCHANGED <<traces, peaks, request, step, error, error_site, buffers,
                   peak_locations, writes, pc>>

\* peak_locations[i] = solve_monopolar_triangulation(wf_ptp, ...)
MonopolarSolveStep(w) ==
    /\ job[w].pc = "solve"
    /\ LET index == job[w].i + 1
           chan_inds == Nonzero(step.neighbours_mask[job[w].peaks[index].channel_ind])
       IN  job' = [job EXCEPT
                      ![w].pc = "loop",
                      ![w].i = index,
                      ![w].peak_locations[index] =
                          solve_monopolar_triangulation(
                              wf_ptp[PtpSlot(w)],
                              LocalContactLocations(step.contact_locations, chan_inds),
                              step.max_distance_um, step.optimizer)]
    /\ UNCHANGED <<traces, peaks, request, step, error, error_site, buffers,
                   peak_locations, writes, pc, wf_ptp>>

\* the loop is exhausted: return peak_locations
ReturnBuffer(w) ==
    /\ job[w].pc = "loop"
    /\ job[w].i = (IF step.name = "center_of_mass" THEN Len(job[w].groups)
                   ELSE Len(job[w].peaks))
    /\ job' = [job EXCEPT ![w].pc = "returned"]
    /\ UNCHANGED <<traces, peaks, request, step, error, error_site, buffers,
                   peak_locations, writes, pc, wf_ptp>>

NextConc ==
    \/ \E w \in Workers, chan \in JobChannels, win \in JobWindows : FetchPeak(w, chan, win)
    \/ \E w \in Workers : EnterComputeBuffer(w)
    \/ \E w \in Workers : PeakChannelStep(w)
    \/ \E w \in Workers : CenterOfMassStep(w)
    \/ \E w \in Workers : MonopolarPtpStep(w)
    \/ \E w \in Workers : MonopolarEnforceStep(w)
    \/ \E w \in Workers : MonopolarSolveStep(w)
    \/ \E w \in Workers : ReturnBuffer(w)

SpecConc == InitConc /\ [][NextConc]_vars

\* ------------------------------------------------------------- properties
Returned == pc = "done" /\ error = "none" /\ step.name # "none"
ReturnedBy(name) == Returned /\ step.name = name

\* the neighbour channels of a channel, from the positions and the radius
NeighbourSet(chan, local_radius_um) ==
    {c \in Channels :
        (ProbeLocations[c + 1][1] - ProbeLocations[chan + 1][1])
            * (ProbeLocations[c + 1][1] - ProbeLocations[chan + 1][1])
        + (ProbeLocations[c + 1][2] - ProbeLocations[chan + 1][2])
            * (ProbeLocations[c + 1][2] - ProbeLocations[chan + 1][2])
        < local_radius_um * local_radius_um}

\* the snippet of peak i alone
OwnSnippet(i) ==
    [s \in 1..(nbefore + nafter) |-> traces[peaks[i].sample_ind - nbefore + s]]

\* the weight of channel c for peak i under the configured feature
OwnWeight(i, c) == WfFeature(request.kw.feature, OwnSnippet(i), c)

RECURSIVE SumOver(_, _)
SumOver(S, f) ==
    IF S = {} THEN Zero
    ELSE LET c == CHOOSE c \in S : TRUE IN RAdd(f[c], SumOver(S \ {c}, f))

OwnNeighbours(i) == NeighbourSet(peaks[i].channel_ind, request.kw.local_radius_um)
WeightSum(i) == SumOver(OwnNeighbours(i), [c \in OwnNeighbours(i) |-> OwnWeight(i, c)])
WeightedSum(i, axis) ==
    SumOver(OwnNeighbours(i),
            [c \in OwnNeighbours(i) |-> RMul(OwnWeight(i, c), RInt(ProbeLocations[c + 1][axis]))])

\* sum(weight_c * position_c) / sum(weight_c) over the neighbours of peak i
Centroid(i) ==
    [x |-> RDiv(WeightedSum(i, 1), WeightSum(i)), y |-> RDiv(WeightedSum(i, 2), WeightSum(i))]

\* the record of peak i when its buffer holds that peak alone
Alone(i) == compute_buffer(step, traces, <<peaks[i]>>).peak_locations[1]

\* C1: every strategy returns exactly one record per peak, each record is
\* written exactly once, and record i is the location computed for peak i
\* (the record the strategy returns for the buffer holding peak i alone),
\* whatever the order and repetition of the channel indices.
C1_OrderPreserved ==
    Returned =>
        /\ Len(peak_locations) = Len(peaks)
        /\ \A i \in DOMAIN peaks :
              /\ writes[i] = 1
              /\ peak_locations[i] = Alone(i)

\* center of mass on two peaks whose channels are in decreasing order and
\* whose locations differ
C1_Witness ==
    /\ ReturnedBy("center_of_mass")
    /\ Len(peaks) = 2
    /\ peaks[1].channel_ind > peaks[2].channel_ind
    /\ peak_locations[1] # peak_locations[2]

\* C2: LocalizePeakChannel returns for every peak exactly the position of
\* the peak's channel, whatever the trace buffer holds.
C2_PeakChannelLookup ==
    ReturnedBy("peak_channel") =>
        \A i \in DOMAIN peaks :
            /\ peak_locations[i].x = RInt(ProbeLocations[peaks[i].channel_ind + 1][1])
            /\ peak_locations[i].y = RInt(ProbeLocations[peaks[i].channel_ind + 1][2])

\* peak-channel on two peaks of different channels over non-flat traces
C2_Witness ==
    /\ ReturnedBy("peak_channel")
    /\ Len(peaks) = 2
    /\ peaks[1].channel_ind = 3
    /\ peaks[2].channel_ind = 1
    /\ \E t \in DOMAIN traces : traces[t] # <<0, 0, 0, 0>>

\* C3: an unsupported method fails inside localize_peaks before a strategy
\* is constructed and before any buffer is processed; a supported method is
\* dispatched to the strategy of that name.
C3_MethodDispatch ==
    pc = "done" =>
        /\ request.method \notin {"peak_channel", "center_of_mass", "monopolar_triangulation"} =>
              /\ error # "none"
              /\ error_site = "localize_peaks"
              /\ step = NoStep
              /\ buffers = 0
        /\ request.method \in {"peak_channel", "center_of_mass", "monopolar_triangulation"} =>
              step.name = request.method

\* an unsupported method was requested for a buffer that holds peaks
C3_Witness ==
    /\ pc = "done"
    /\ request.method = "grid_convolution"
    /\ error = "UnboundLocalError"
    /\ Len(peaks) > 0

\* C4: an unsupported feature fails at the construction of
\* LocalizeCenterOfMass, before any buffer is processed.
C4_FeatureCheckedAtConstruction ==
    (pc = "done" /\ request.method = "center_of_mass"
        /\ request.kw.feature \notin SupportedFeatures) =>
        /\ error # "none"
        /\ step = NoStep
        /\ buffers = 0

\* C5: a peak whose neighbour weights sum to zero gets NaN coordinates, and
\* every other peak of the buffer gets the record it gets alone.
C5_DegenerateYieldsNaN ==
    ReturnedBy("center_of_mass") =>
        \A i \in DOMAIN peaks :
            IF WeightSum(i) = Zero
            THEN IsNaN(peak_locations[i].x) /\ IsNaN(peak_locations[i].y)
            ELSE peak_locations[i] = Alone(i)

\* C6: the record center of mass produces for a peak of a batch is the
\* weighted centroid of the neighbours of the peak's own channel, with the
\* weights of the peak's own snippet.
C6_BatchEqualsAlone ==
    ReturnedBy("center_of_mass") =>
        \A i \in DOMAIN peaks : peak_locations[i] = Centroid(i)

\* two peaks of one channel with different snippets and different locations
C6_Witness ==
    /\ ReturnedBy("center_of_mass")
    /\ Len(peaks) = 2
    /\ peaks[1].channel_ind = peaks[2].channel_ind
    /\ OwnSnippet(1) # OwnSnippet(2)
    /\ IsFinite(peak_locations[1].x)
    /\ IsFinite(peak_locations[2].x)
    /\ peak_locations[1] # peak_locations[2]

\* the convex hull of the neighbour positions; the contacts of the probe are
\* collinear along x, so the hull is the segment between the extreme
\* neighbour coordinates
InHull(loc, neighbours) ==
    /\ \E c \in neighbours : RLeq(RInt(ProbeLocations[c + 1][1]), loc.x)
    /\ \E c \in neighbours : RLeq(loc.x, RInt(ProbeLocations[c + 1][1]))
    /\ \E c \in neighbours : RLeq(RInt(ProbeLocations[c + 1][2]), loc.y)
    /\ \E c \in neighbours : RLeq(loc.y, RInt(ProbeLocations[c + 1][2]))

\* C7 as stated: for every feature the output lies in the hull of the
\* neighbour positions.
C7_AlwaysInHull ==
    ReturnedBy("center_of_mass") =>
        \A i \in DOMAIN peaks : InHull(peak_locations[i], OwnNeighbours(i))

SameSignWeights(i) ==
    /\ \/ \A c \in OwnNeighbours(i) : RSign(OwnWeight(i, c)) >= 0
       \/ \A c \in OwnNeighbours(i) : RSign(OwnWeight(i, c)) <= 0
    /\ \E c \in OwnNeighbours(i) : RSign(OwnWeight(i, c)) # 0

\* C7 amended: the output lies in the hull of the neighbour positions
\* whenever the neighbour weights are all >= 0 or all <= 0 and not all zero.
C7_InHullWhenSameSign ==
    ReturnedBy("center_of_mass") =>
        \A i \in DOMAIN peaks :
            SameSignWeights(i) => InHull(peak_locations[i], OwnNeighbours(i))

\* a peak with negative weights ('v_origin') strictly inside the hull
C7_Witness ==
    /\ ReturnedBy("center_of_mass")
    /\ request.kw.feature = "v_origin"
    /\ Len(peaks) > 0
    /\ SameSignWeights(1)
    /\ \A c \in OwnNeighbours(1) : RSign(OwnWeight(1, c)) < 0
    /\ \A c \in OwnNeighbours(1) : peak_locations[1].x # RInt(ProbeLocations[c + 1][1])

\* the example: one peak on channel 2, all four channels neighbours, ptp
\* values 1, 4, 10, 4 on channels 0..3, feature 'ptp'
ExampleRun ==
    /\ ReturnedBy("center_of_mass")
    /\ request.kw.feature = "ptp"
    /\ request.kw.local_radius_um = 65
    /\ Len(peaks) = 1
    /\ peaks[1].channel_ind = 2
    /\ [c \in Channels |-> OwnWeight(1, c)] = [c \in Channels |-> RInt(<<1, 4, 10, 4>>[c + 1])]

\* C9 as stated: the example outputs approximately (38.9, 0).
C9_ExampleIs38_9 ==
    ExampleRun =>
        /\ RLeq(Rat(3885, 100), peak_locations[1].x)
        /\ RLeq(peak_locations[1].x, Rat(3895, 100))
        /\ peak_locations[1].y = Zero

\* C9 amended: the example outputs (720/19, 0), approximately (37.9, 0).
C9_ExampleIs37_9 ==
    ExampleRun =>
        /\ peak_locations[1].x = Rat(720, 19)
        /\ RLeq(Rat(3785, 100), peak_locations[1].x)
        /\ RLeq(peak_locations[1].x, Rat(3795, 100))
        /\ peak_locations[1].y = Zero

C9_Witness == ExampleRun

\* the peak-to-peak amplitudes of peak i on the neighbours of its channel
RawPtp(i) ==
    LET chan_inds == SortedSeq(OwnNeighbours(i))
    IN  [k \in DOMAIN chan_inds |->
            SeqMax(Column(OwnSnippet(i), chan_inds[k]))
            - SeqMin(Column(OwnSnippet(i), chan_inds[k]))]

\* the shells of channel chan: positions in its neighbour vector grouped by
\* distance from chan, by increasing distance
ShellsOf(chan, local_radius_um) ==
    make_radial_order_parents(ContactLocations,
                              NeighboursMask(ContactLocations, local_radius_um))[chan]

\* every amplitude of shell s > 0 is at most the minimum of shell s-1
Decreasing(amp, shells) ==
    \A s \in 2..Len(shells) : \A k \in shells[s] : \A p \in shells[s - 1] : amp[k] <= amp[p]

\* C10: with enforce_decrease the solver receives, for every peak, the
\* peak's own amplitudes made non-increasing from shell to shell around the
\* peak's channel (the peak channel's amplitude unchanged, no amplitude
\* raised); without it the shell order is not built and the solver receives
\* the peak's own raw amplitudes.
C10_EnforcedDecrease ==
    ReturnedBy("monopolar_triangulation") =>
        \A i \in DOMAIN peaks :
            LET given == peak_locations[i].wf_ptp
                shells == ShellsOf(peaks[i].channel_ind, request.kw.local_radius_um)
            IN  IF request.kw.enforce_decrease
                THEN /\ step.enforce_decrease_radial_parents.built
                     /\ DOMAIN given = DOMAIN RawPtp(i)
                     /\ Decreasing(given, shells)
                     /\ \A k \in shells[1] : given[k] = RawPtp(i)[k]
                     /\ \A k \in DOMAIN given : given[k] <= RawPtp(i)[k]
                     /\ given = enforce_decrease_shells_ptp(RawPtp(i), peaks[i].channel_ind,
                                    step.enforce_decrease_radial_parents.parents)
                ELSE /\ ~step.enforce_decrease_radial_parents.built
                     /\ given = RawPtp(i)

\* enforcement changed the amplitudes of the second of two peaks and left
\* those of the first as they were
C10_Witness ==
    /\ ReturnedBy("monopolar_triangulation")
    /\ request.kw.enforce_decrease
    /\ Len(peaks) = 2
    /\ peak_locations[1].wf_ptp = RawPtp(1)
    /\ peak_locations[2].wf_ptp # RawPtp(2)

\* what an invocation reads and must not write: the strategy and its inputs
ReadOnly(w) == <<step, job[w].traces, job[w].peaks>>

\* C8: interleaved compute_buffer invocations on one strategy instance do not
\* interfere: no step of a running invocation changes the strategy
\* (configuration, contact_locations, neighbours_mask, shell order) or the
\* traces and peaks of any invocation, and every invocation returns what
\* compute_buffer returns for its buffer when run alone.
C8_InterferenceFree ==
    /\ [](\A w \in Workers :
            job[w].pc = "returned" =>
                job[w].peak_locations
                    = compute_buffer(step, job[w].traces, job[w].peaks).peak_locations)
    /\ [][(\E w \in Workers : job[w].pc # "idle") =>
             \A w \in Workers : job[w].pc # "idle" => ReadOnly(w)' = ReadOnly(w)]_vars

\* both invocations returned, after the enforcer changed the amplitudes of
\* both, on different buffers
C8_Witness ==
    /\ step.name = "monopolar_triangulation"
    /\ step.enforce_decrease_radial_parents.built
    /\ \A w \in Workers : job[w].pc = "returned" /\ Len(job[w].peaks) > 0
    /\ job[1].traces # job[2].traces
    /\ job[1].peak_locations # job[2].peak_locations
    /\ \A w \in Workers :
          job[w].peak_locations[1].wf_ptp
              # WfPtp(job[w].traces, job[w].peaks[1],
                      Nonzero(step.neighbours_mask[job[w].peaks[1].channel_ind]))

====
